---- MODULE Spec2Model ----
(***************************************************************************)
(* A model of edge_tts.submaker.SubMaker: the session that buffers timed   *)
(* WordBoundary / SentenceBoundary messages (feed) and turns them into the *)
(* cue list handed to the SRT composer (get_srt), optionally regrouping    *)
(* the words along the line breaks of an original text.                    *)
(*                                                                         *)
(* Strings are sequences of one-character strings, so that splitting,      *)
(* trimming, lower-casing, joining and substring search are computed.      *)
(* Python lists are sequences; the identity of the list objects matters    *)
(* (get_srt may bind self.cues to the very list self._all_words_buffer     *)
(* names) and is kept in cues_is_buffer.                                   *)
(***************************************************************************)
EXTENDS Integers, Sequences, FiniteSets, TLC

VARIABLES
    original_text,      \* self.original_text: None or a string
    line_groups,        \* self._line_groups: None or a list of strings
    type,               \* self.type: NoType or the kind of the first accepted message
    all_words_buffer,   \* self._all_words_buffer: list of Subtitle
    cues,               \* self.cues: list of Subtitle
    cues_is_buffer,     \* self.cues and self._all_words_buffer name the same list object
    fed,                \* history: the messages feed accepted, in order
    last_op,            \* history: "init", "feed" or "get_srt", the last call made
    last_kind,          \* history: msg["type"] of the last feed call
    result,             \* history: outcome of the last feed call
    returned,           \* history: the cue list the last get_srt call gave to compose
    run                 \* history: what the line aligner did in the last get_srt call

vars == <<original_text, line_groups, type, all_words_buffer, cues, cues_is_buffer,
          fed, last_op, last_kind, result, returned, run>>

(***************************************************************************)
(* Bounds of the model.                                                    *)
(***************************************************************************)
MaxBuf == 2         \* Spec: feed is called while the buffer holds fewer entries
MaxWords == 3       \* SpecAlign: feed is called while the buffer holds fewer entries
MaxCues == 3        \* get_srt is called while self.cues holds fewer entries
MaxLines == 2       \* SpecAlign: the original text has at most this many lines

(***************************************************************************)
(* Python values.                                                          *)
(***************************************************************************)
None == << >>
Some(v) == <<v>>
IsNone(o) == o = << >>
Val(o) == o[1]

NoType == "None"
ValidKinds == {"WordBoundary", "SentenceBoundary"}

Uppers == <<"A","B","C","D","E","F","G","H","I","J","K","L","M",
            "N","O","P","Q","R","S","T","U","V","W","X","Y","Z">>
Lowers == <<"a","b","c","d","e","f","g","h","i","j","k","l","m",
            "n","o","p","q","r","s","t","u","v","w","x","y","z">>

LowerChar(c) ==
    IF \E i \in 1..Len(Uppers) : Uppers[i] = c
    THEN Lowers[CHOOSE i \in 1..Len(Uppers) : Uppers[i] = c]
    ELSE c

\* str.lower()
Lower(s) == [i \in 1..Len(s) |-> LowerChar(s[i])]

\* the characters str.strip() removes
IsSpace(c) == c \in {" ", "\t", "\n", "\r", "\f"}

\* str.strip()
Strip(s) ==
    LET keep == {i \in 1..Len(s) : ~IsSpace(s[i])}
    IN  IF keep = {} THEN << >>
        ELSE SubSeq(s, CHOOSE i \in keep : \A j \in keep : i <= j,
                       CHOOSE i \in keep : \A j \in keep : i >= j)

\* str.split(sep) for a one-character separator
RECURSIVE Split(_, _)
Split(s, sep) ==
    IF \A i \in 1..Len(s) : s[i] # sep THEN <<s>>
    ELSE LET i == CHOOSE k \in 1..Len(s) : s[k] = sep /\ \A j \in 1..(k-1) : s[j] # sep
         IN  <<SubSeq(s, 1, i - 1)>> \o Split(SubSeq(s, i + 1, Len(s)), sep)

\* sep.join(parts)
RECURSIVE Join(_, _)
Join(parts, sep) ==
    IF parts = << >> THEN << >>
    ELSE IF Len(parts) = 1 THEN parts[1]
    ELSE parts[1] \o sep \o Join(Tail(parts), sep)

\* needle in hay
Contains(hay, needle) ==
    \E i \in 0..(Len(hay) - Len(needle)) : SubSeq(hay, i + 1, i + Len(needle)) = needle

\* [f(x) for x in xs if keep(x)], here with f = strip and keep = non-empty strip
RECURSIVE StrippedNonEmpty(_)
StrippedNonEmpty(xs) ==
    IF xs = << >> THEN << >>
    ELSE (IF Strip(Head(xs)) # << >> THEN <<Strip(Head(xs))>> ELSE << >>)
         \o StrippedNonEmpty(Tail(xs))

\* timedelta(microseconds=ticks / 10): the float is rounded to whole microseconds,
\* ties to even
TicksToMicros(ticks) ==
    LET q == ticks \div 10
        r == ticks % 10
    IN  IF r < 5 THEN q
        ELSE IF r > 5 THEN q + 1
        ELSE IF q % 2 = 0 THEN q ELSE q + 1

(***************************************************************************)
(* __init__                                                                *)
(***************************************************************************)
\* mutant: the lines are trimmed but the empty ones are kept
LineGroupsOf_KeepsEmptyLines(text) ==
    IF ~IsNone(text) /\ Val(text) # << >>
    THEN LET pieces == Split(Val(text), "\n")
         IN  Some([i \in 1..Len(pieces) |-> Strip(pieces[i])])
    ELSE None

LineGroupsOf(text) ==
    IF ~IsNone(text) /\ Val(text) # << >>
    THEN Some(StrippedNonEmpty(Split(Val(text), "\n")))
    ELSE None

\* truth value of self._line_groups
HasLines(lg) == ~IsNone(lg) /\ Val(lg) # << >>

NoRun == [ran |-> FALSE, words |-> << >>, line_words |-> << >>, content |-> << >>,
          word_index |-> 0]

InitWith(text) ==
    /\ original_text = text
    /\ line_groups = LineGroupsOf(text)
    /\ type = NoType
    /\ all_words_buffer = << >>
    /\ cues = << >>
    /\ cues_is_buffer = FALSE
    /\ fed = << >>
    /\ last_op = "init"
    /\ last_kind = NoType
    /\ result = "none"
    /\ returned = << >>
    /\ run = NoRun

(***************************************************************************)
(* feed                                                                    *)
(***************************************************************************)
\* mutant: the kind of a later message is not compared with the recorded kind
FeedOutcome_NoMixedCheck(ty, msg) ==
    IF msg.type \notin ValidKinds THEN "InvalidEventKind" ELSE "ok"

FeedOutcome(ty, msg) ==
    IF msg.type \notin ValidKinds THEN "InvalidEventKind"
    ELSE IF ty = NoType THEN "ok"
    ELSE IF ty # msg.type THEN "MixedEventKind"
    ELSE "ok"

\* mutant: the index is the 0-based position
MakeSubtitle_IndexFromZero(buf, msg) ==
    [index   |-> Len(buf),
     start   |-> TicksToMicros(msg.offset),
     end     |-> TicksToMicros(msg.offset + msg.duration),
     content |-> msg.text]

MakeSubtitle(buf, msg) ==
    [index   |-> Len(buf) + 1,
     start   |-> TicksToMicros(msg.offset),
     end     |-> TicksToMicros(msg.offset + msg.duration),
     content |-> msg.text]

\* mutant: the kind is recorded before the message is validated
Feed_RecordsKindFirst(msg) ==
    LET out == FeedOutcome(type, msg)
        nb  == Append(all_words_buffer, MakeSubtitle(all_words_buffer, msg))
    IN  /\ IF out = "InvalidEventKind"
           THEN /\ type' = (IF type = NoType THEN msg.type ELSE type)
                /\ UNCHANGED <<all_words_buffer, cues, fed>>
           ELSE IF out = "MixedEventKind"
           THEN UNCHANGED <<type, all_words_buffer, cues, fed>>
           ELSE /\ type' = msg.type
                /\ all_words_buffer' = nb
                /\ cues' = IF cues_is_buffer THEN nb ELSE cues
                /\ fed' = Append(fed, msg)
        /\ last_op' = "feed"
        /\ last_kind' = msg.type
        /\ result' = out
        /\ returned' = << >>
        /\ run' = NoRun
        /\ UNCHANGED <<original_text, line_groups, cues_is_buffer>>

Feed(msg) ==
    LET out == FeedOutcome(type, msg)
        nb  == Append(all_words_buffer, MakeSubtitle(all_words_buffer, msg))
    IN  /\ IF out = "InvalidEventKind"
           THEN UNCHANGED <<type, all_words_buffer, cues, fed>>
           ELSE IF out = "MixedEventKind"
           THEN UNCHANGED <<type, all_words_buffer, cues, fed>>
           ELSE /\ type' = msg.type
                /\ all_words_buffer' = nb
                /\ cues' = IF cues_is_buffer THEN nb ELSE cues
                /\ fed' = Append(fed, msg)
        /\ last_op' = "feed"
        /\ last_kind' = msg.type
        /\ result' = out
        /\ returned' = << >>
        /\ run' = NoRun
        /\ UNCHANGED <<original_text, line_groups, cues_is_buffer>>

(***************************************************************************)
(* _group_words_by_lines                                                   *)
(***************************************************************************)
\* mutant: only the exact match ends a line, the containment match is missing
Matches_EqualityOnly(accumulated_text, line_text) ==
    Lower(accumulated_text) = Lower(line_text)

\* the two break conditions of the inner loop
Matches(accumulated_text, line_text) ==
    \/ Lower(accumulated_text) = Lower(line_text)
    \/ /\ Len(accumulated_text) >= Len(line_text)
       /\ Contains(Lower(accumulated_text), Lower(line_text))

\* mutant: the words are accumulated without the separating space
RECURSIVE CollectWords_NoSeparator(_, _, _, _, _)
CollectWords_NoSeparator(buf, line_text, word_index, line_words, accumulated_text) ==
    IF ~(word_index < Len(buf))
    THEN [line_words |-> line_words, word_index |-> word_index]
    ELSE LET word == buf[word_index + 1]
             lw   == Append(line_words, word.content)
             acc  == accumulated_text \o word.content
             wi   == word_index + 1
         IN  IF Matches(acc, line_text)
             THEN [line_words |-> lw, word_index |-> wi]
             ELSE CollectWords_NoSeparator(buf, line_text, wi, lw, acc)

\* mutant: the cursor is advanced twice per word
RECURSIVE CollectWords_SkipsWord(_, _, _, _, _)
CollectWords_SkipsWord(buf, line_text, word_index, line_words, accumulated_text) ==
    IF ~(word_index < Len(buf))
    THEN [line_words |-> line_words, word_index |-> word_index]
    ELSE LET word == buf[word_index + 1]
             lw   == Append(line_words, word.content)
             acc  == accumulated_text
                     \o (IF accumulated_text # << >> THEN <<" ">> ELSE << >>)
                     \o word.content
             wi   == word_index + 2
         IN  IF Matches(acc, line_text)
             THEN [line_words |-> lw, word_index |-> wi]
             ELSE CollectWords_SkipsWord(buf, line_text, wi, lw, acc)

\* mutant: a line that runs out of words without a match gives its words back
RECURSIVE CollectWords_Backtrack(_, _, _, _, _)
CollectWords_Backtrack(buf, line_text, word_index, line_words, accumulated_text) ==
    IF ~(word_index < Len(buf))
    THEN [line_words |-> << >>, word_index |-> word_index - Len(line_words)]
    ELSE LET word == buf[word_index + 1]
             lw   == Append(line_words, word.content)
             acc  == accumulated_text
                     \o (IF accumulated_text # << >> THEN <<" ">> ELSE << >>)
                     \o word.content
             wi   == word_index + 1
         IN  IF Matches(acc, line_text)
             THEN [line_words |-> lw, word_index |-> wi]
             ELSE CollectWords_Backtrack(buf, line_text, wi, lw, acc)

\* the inner while loop for one line, from its state before an iteration
RECURSIVE CollectWords(_, _, _, _, _)
CollectWords(buf, line_text, word_index, line_words, accumulated_text) ==
    IF ~(word_index < Len(buf))
    THEN [line_words |-> line_words, word_index |-> word_index]
    ELSE LET word == buf[word_index + 1]
             lw   == Append(line_words, word.content)
             acc  == accumulated_text
                     \o (IF accumulated_text # << >> THEN <<" ">> ELSE << >>)
                     \o word.content
             wi   == word_index + 1
         IN  IF Matches(acc, line_text)
             THEN [line_words |-> lw, word_index |-> wi]
             ELSE CollectWords(buf, line_text, wi, lw, acc)

\* mutant: the reference line's own text is recorded instead of the words consumed
RECURSIVE GroupLines_UsesLineText(_, _, _, _, _, _)
GroupLines_UsesLineText(buf, lines, line_idx, word_index, all_words_content, line_words) ==
    IF ~(line_idx < Len(lines))
    THEN [all_words_content |-> all_words_content, line_words |-> line_words,
          word_index |-> word_index]
    ELSE LET c == CollectWords(buf, lines[line_idx + 1], word_index, << >>, << >>)
         IN  GroupLines_UsesLineText(buf, lines, line_idx + 1, c.word_index,
                        Append(all_words_content, lines[line_idx + 1]),
                        Append(line_words, c.line_words))

\* the for loop over the line groups, from line_idx on (0-based); line_words keeps
\* each line's line_words list next to the joined text the code appends
RECURSIVE GroupLines(_, _, _, _, _, _)
GroupLines(buf, lines, line_idx, word_index, all_words_content, line_words) ==
    IF ~(line_idx < Len(lines))
    THEN [all_words_content |-> all_words_content, line_words |-> line_words,
          word_index |-> word_index]
    ELSE LET c == CollectWords(buf, lines[line_idx + 1], word_index, << >>, << >>)
         IN  GroupLines(buf, lines, line_idx + 1, c.word_index,
                        Append(all_words_content, Join(c.line_words, <<" ">>)),
                        Append(line_words, c.line_words))

\* mutant: the remaining words are appended as one space-joined line
RemainingWords_OneLine(buf, word_index) ==
    IF word_index < Len(buf)
    THEN <<Join([i \in 1..(Len(buf) - word_index) |-> buf[word_index + i].content],
                <<" ">>)>>
    ELSE << >>

\* the trailing while loop: each remaining word is appended on its own
RemainingWords(buf, word_index) ==
    [i \in 1..(Len(buf) - word_index) |-> buf[word_index + i].content]

\* all_words_content when the combined subtitle is built
AllWordsContent(buf, lines) ==
    LET g == GroupLines(buf, lines, 0, 0, << >>, << >>)
    IN  g.all_words_content \o RemainingWords(buf, g.word_index)

Combined(buf, lines) ==
    [index   |-> 1,
     start   |-> buf[1].start,
     end     |-> buf[Len(buf)].end,
     content |-> Join(AllWordsContent(buf, lines), <<"\n">>)]

\* the list self.cues names after the call, given the one it names before
GroupWordsByLines(cs, buf, lg) ==
    IF buf = << >> \/ ~HasLines(lg) THEN cs
    ELSE Append(cs, Combined(buf, Val(lg)))

(***************************************************************************)
(* get_srt                                                                 *)
(***************************************************************************)
UseLineGroups(lg, ty, buf) ==
    HasLines(lg) /\ ty = "WordBoundary" /\ buf # << >>

\* mutant: with line groups and no words, a cue is made of the line groups alone
GetSrtCues_LinesWithoutWords(cs, buf, lg, ty) ==
    IF HasLines(lg) /\ buf = << >>
    THEN Append(cs, [index |-> 1, start |-> 0, end |-> 0,
                     content |-> Join(Val(lg), <<"\n">>)])
    ELSE IF UseLineGroups(lg, ty, buf) THEN GroupWordsByLines(cs, buf, lg) ELSE buf

\* what self.cues holds when it is passed to compose
GetSrtCues(cs, buf, lg, ty) ==
    IF UseLineGroups(lg, ty, buf) THEN GroupWordsByLines(cs, buf, lg) ELSE buf

WordTexts(buf) == [i \in 1..Len(buf) |-> buf[i].content]

AlignerRun(buf, lg) ==
    LET g == GroupLines(buf, Val(lg), 0, 0, << >>, << >>)
    IN  [ran |-> TRUE, words |-> WordTexts(buf), line_words |-> g.line_words,
         content |-> g.all_words_content \o RemainingWords(buf, g.word_index),
         word_index |-> g.word_index]

GetSrt ==
    LET use == UseLineGroups(line_groups, type, all_words_buffer)
    IN  /\ cues' = GetSrtCues(cues, all_words_buffer, line_groups, type)
        /\ cues_is_buffer' = (IF use THEN cues_is_buffer ELSE TRUE)
        /\ all_words_buffer' = (IF use /\ cues_is_buffer THEN cues' ELSE all_words_buffer)
        /\ returned' = cues'
        /\ run' = (IF use THEN AlignerRun(all_words_buffer, line_groups) ELSE NoRun)
        /\ last_op' = "get_srt"
        /\ result' = "none"
        /\ last_kind' = NoType
        /\ UNCHANGED <<original_text, line_groups, type, fed>>

(***************************************************************************)
(* Inputs and specifications.                                              *)
(***************************************************************************)
SeqsUpTo(A, n) == UNION {[1..k -> A] : k \in 0..n}

MsgTypes == ValidKinds \cup {"SessionEnd"}

\* timing-rich sessions: every kind of message, ticks that are and are not
\* whole microseconds, short original texts
SessionWords == {<<"a">>, <<"b">>}
Offsets == {0, 15}
Durations == {5, 10}
SessionTexts == {None, Some(<< >>), Some(<<"\n">>), Some(<<"a">>),
                 Some(<<"a", "\n", "b">>), Some(<<"A", " ", "b">>)}
Msgs == [type : MsgTypes, text : SessionWords, offset : Offsets, duration : Durations]

Init == \E text \in SessionTexts : InitWith(text)

FeedAny == \E msg \in Msgs : Len(all_words_buffer) < MaxBuf /\ Feed(msg)

GetSrtCall == Len(cues) < MaxCues /\ GetSrt

Next == FeedAny \/ GetSrtCall

Spec == Init /\ [][Next]_vars

\* text-rich sessions: WordBoundary messages with a fixed timing, original texts
\* over letters of both cases, spaces and line breaks
AlignWords == {<<"a">>, <<"B">>, <<"a", "b">>}
AlignPieces == {<< >>, <<"a">>, <<"a", " ", "B">>, <<" ", "b", " ">>}
AlignTexts == {None} \cup {Some(Join(ps, <<"\n">>)) : ps \in SeqsUpTo(AlignPieces, MaxLines)}
WordMsg(w) == [type |-> "WordBoundary", text |-> w, offset |-> 0, duration |-> 10]

InitAlign == \E text \in AlignTexts : InitWith(text)

FeedWord == \E w \in AlignWords : Len(all_words_buffer) < MaxWords /\ Feed(WordMsg(w))

NextAlign == FeedWord \/ GetSrtCall

SpecAlign == InitAlign /\ [][NextAlign]_vars

\* sessions whose word texts are any strings: empty, or with a space inside
LooseWords == {<< >>, <<"a">>, <<"B">>, <<"a", " ", "B">>}
LoosePieces == {<<"a">>, <<"A", " ", "b">>}
LooseTexts == {Some(Join(ps, <<"\n">>)) : ps \in SeqsUpTo(LoosePieces, MaxLines)}

InitLoose == \E text \in LooseTexts : InitWith(text)

FeedLooseWord ==
    \E w \in LooseWords : Len(all_words_buffer) < MaxWords /\ Feed(WordMsg(w))

NextLoose == FeedLooseWord \/ GetSrtCall

SpecLoose == InitLoose /\ [][NextLoose]_vars

(***************************************************************************)
(* Properties.                                                             *)
(***************************************************************************)
Last(q) == q[Len(q)]

\* the session is in Case A: no reference lines, or SentenceBoundary events
CaseA == ~HasLines(line_groups) \/ type = "SentenceBoundary"

\* the session is in Case B once it holds an event
CaseB == HasLines(line_groups) /\ type = "WordBoundary" /\ fed # << >>

\* C1: two consecutive get_srt calls with no feed in between give the same cue
\* sequence.
C1_GetSrtIdempotent ==
    [][(last_op = "get_srt" /\ last_op' = "get_srt") => returned' = returned]_vars

\* C2: in Case B every get_srt call gives exactly one cue, from the first fed
\* event's start to the last fed event's end.
C2_SingleCue ==
    (last_op = "get_srt" /\ CaseB) =>
        /\ Len(returned) = 1
        /\ returned[1].start = TicksToMicros(fed[1].offset)
        /\ returned[1].end = TicksToMicros(Last(fed).offset + Last(fed).duration)

\* C3: a feed of a valid kind succeeds when no event was accepted yet; a feed fails
\* as mixed exactly when its valid kind differs from the first accepted event's kind;
\* a feed of the first accepted event's kind succeeds.
C3_KindConsistency ==
    [][last_op' = "feed" =>
         /\ (fed = << >> /\ last_kind' \in ValidKinds) => result' = "ok"
         /\ result' = "MixedEventKind" <=>
                (last_kind' \in ValidKinds /\ fed # << >> /\ last_kind' # fed[1].type)
         /\ (fed # << >> /\ last_kind' = fed[1].type) => result' = "ok"]_vars

C3_Witness ==
    /\ last_op = "feed"
    /\ result = "MixedEventKind"
    /\ fed # << >>
    /\ fed[1].type = "SentenceBoundary"
    /\ last_kind = "WordBoundary"

\* C4: a feed that fails leaves the buffer, the recorded kind, the reference lines
\* and the cue list as they were; an invalid kind fed first records no kind, so a
\* valid event of either kind is accepted while no event has been accepted.
C4_FailedFeedNoEffect ==
    [][last_op' = "feed" =>
         /\ result' # "ok" =>
                UNCHANGED <<all_words_buffer, type, line_groups, cues, cues_is_buffer, fed>>
         /\ fed = << >> => type = NoType
         /\ (fed = << >> /\ last_kind' \in ValidKinds) =>
                (result' = "ok" /\ type' = last_kind')]_vars

C4_Witness ==
    /\ last_op = "feed"
    /\ result = "InvalidEventKind"
    /\ fed = << >>
    /\ type = NoType
    /\ cues_is_buffer

\* C5 as stated: in Case A get_srt gives one cue per fed event, in feed order, with
\* index 1..N, the event's text, and start and end equal to the event's offset and
\* offset+length (100 ns ticks, a cue time being whole microseconds).
C5_ExactTicks ==
    (last_op = "get_srt" /\ CaseA) =>
        /\ Len(returned) = Len(fed)
        /\ \A i \in 1..Len(fed) :
              /\ returned[i].index = i
              /\ returned[i].content = fed[i].text
              /\ 10 * returned[i].start = fed[i].offset
              /\ 10 * returned[i].end = fed[i].offset + fed[i].duration

\* a time in microseconds that is a nearest whole microsecond to a time in ticks
NearestMicros(us, ticks) == (10 * us - ticks) \in (-5)..5

\* C5 amended: in Case A get_srt gives one cue per fed event, in feed order, with
\* index 1..N, the event's text, and start and end the event's offset and
\* offset+length rounded to a nearest whole microsecond.
C5_OrderPreservation ==
    (last_op = "get_srt" /\ CaseA) =>
        /\ Len(returned) = Len(fed)
        /\ \A i \in 1..Len(fed) :
              /\ returned[i].index = i
              /\ returned[i].content = fed[i].text
              /\ NearestMicros(returned[i].start, fed[i].offset)
              /\ NearestMicros(returned[i].end, fed[i].offset + fed[i].duration)

C5_Witness ==
    /\ last_op = "get_srt"
    /\ type = "SentenceBoundary"
    /\ HasLines(line_groups)
    /\ Len(returned) >= 2
    /\ fed[1].text # fed[2].text
    /\ fed[2].offset = 15

\* the words of ws joined with a line break after word i for i in cuts and a space
\* after any other word but the last
RECURSIVE JoinCut(_, _, _)
JoinCut(ws, cuts, i) ==
    IF i > Len(ws) THEN << >>
    ELSE ws[i]
         \o (IF i = Len(ws) THEN << >> ELSE IF i \in cuts THEN <<"\n">> ELSE <<" ">>)
         \o JoinCut(ws, cuts, i + 1)

\* a non-empty text without whitespace
IsWord(w) == w # << >> /\ \A i \in 1..Len(w) : ~IsSpace(w[i])

\* the lines are the space-joined texts of consecutive groups partitioning ws
IsPartitionOf(lines, ws) ==
    /\ ws # << >>
    /\ \A i \in 1..Len(ws) : IsWord(ws[i])
    /\ \E cuts \in SUBSET (1..(Len(ws) - 1)) : lines = Split(JoinCut(ws, cuts, 1), "\n")

\* C6: when the reference lines are the space-joined texts of consecutive groups
\* of the buffered words, the content of the cue the aligner builds, split on the
\* line break, is exactly the reference lines.
C6_ExactMatchRoundTrip ==
    (last_op = "get_srt" /\ run.ran /\ IsPartitionOf(Val(line_groups), run.words)) =>
        Split(Last(returned).content, "\n") = Val(line_groups)

C6_Witness ==
    /\ last_op = "get_srt"
    /\ run.ran
    /\ IsPartitionOf(Val(line_groups), run.words)
    /\ Len(run.words) = 3
    /\ Len(Val(line_groups)) = 2
    /\ Len(returned) = 1

\* the number of words the lines before line k took
RECURSIVE WordsBefore(_, _)
WordsBefore(line_words, k) ==
    IF k <= 1 THEN 0 ELSE WordsBefore(line_words, k - 1) + Len(line_words[k - 1])

\* no non-empty prefix of rest, joined with single spaces, matches the line
NoPrefixMatches(rest, line_text) ==
    \A m \in 1..Len(rest) : ~Matches(Join(SubSeq(rest, 1, m), <<" ">>), line_text)

\* line k of the last aligner run found no match among the words left to it
Starved(k) ==
    NoPrefixMatches(SubSeq(run.words, WordsBefore(run.line_words, k) + 1, Len(run.words)),
                    Val(line_groups)[k])

\* C7: a reference line for which no prefix of the remaining words matches takes
\* all the remaining words, and every later reference line takes none.
C7_Starvation ==
    (last_op = "get_srt" /\ run.ran) =>
        \A k \in 1..Len(Val(line_groups)) :
            Starved(k) =>
                /\ run.line_words[k] =
                       SubSeq(run.words, WordsBefore(run.line_words, k) + 1, Len(run.words))
                /\ \A j \in (k + 1)..Len(Val(line_groups)) : run.line_words[j] = << >>
                /\ run.content = [j \in 1..Len(Val(line_groups)) |->
                                      Join(run.line_words[j], <<" ">>)]

C7_Witness ==
    /\ last_op = "get_srt"
    /\ run.ran
    /\ Len(Val(line_groups)) = 2
    /\ Starved(1)
    /\ Len(run.line_words[1]) = 3
    /\ run.line_words[2] = << >>

\* C8: the cue at position i of a cue sequence get_srt gives has index i.
C8_SequentialIndex ==
    last_op = "get_srt" => \A i \in 1..Len(returned) : returned[i].index = i

FedInOrder ==
    /\ \A i \in 1..Len(fed) : fed[i].duration >= 0
    /\ \A i, j \in 1..Len(fed) : i <= j => fed[i].offset <= fed[j].offset

\* C10: when the events are fed in order, every cue of a cue sequence get_srt
\* gives has start <= end, and the cues' starts are non-decreasing.
C10_CueTiming ==
    (last_op = "get_srt" /\ FedInOrder) =>
        /\ \A i \in 1..Len(returned) : returned[i].start <= returned[i].end
        /\ \A i, j \in 1..Len(returned) :
              i <= j => returned[i].start <= returned[j].start

\* C11: get_srt leaves the buffer and the recorded kind as they were; the buffer
\* changes only by a successful feed, which appends exactly one entry at its end.
C11_GetSrtKeepsBuffer ==
    [][/\ last_op' = "get_srt" =>
              (all_words_buffer' = all_words_buffer /\ type' = type)
       /\ last_op' = "feed" =>
              \/ all_words_buffer' = all_words_buffer
              \/ /\ result' = "ok"
                 /\ Len(all_words_buffer') = Len(all_words_buffer) + 1
                 /\ SubSeq(all_words_buffer', 1, Len(all_words_buffer))
                        = all_words_buffer]_vars

\* the buffer of a session that was fed msgs and nothing else
RECURSIVE FreshBuffer(_)
FreshBuffer(msgs) ==
    IF msgs = << >> THEN << >>
    ELSE LET before == FreshBuffer(SubSeq(msgs, 1, Len(msgs) - 1))
         IN  Append(before, MakeSubtitle(before, msgs[Len(msgs)]))

\* what get_srt gives on a session created with text, fed msgs, and on which
\* get_srt was not called before
FreshCues(text, msgs) ==
    GetSrtCues(<< >>, FreshBuffer(msgs), LineGroupsOf(text),
               IF msgs = << >> THEN NoType ELSE msgs[1].type)

\* C12: get_srt gives what it gives on a session with the same original text and
\* the same accepted events on which get_srt was never called before.
C12_IndependentOfEarlierCalls ==
    last_op = "get_srt" => returned = FreshCues(original_text, fed)

\* the match condition as the claim words it: the joined text equals the line
\* case-insensitively, or is at least as long and contains it case-insensitively
JoinQualifies(ws, line_text) ==
    LET joined == Lower(Join(ws, <<" ">>))
        line   == Lower(line_text)
    IN  \/ joined = line
        \/ /\ Len(joined) >= Len(line)
           /\ \E i \in 1..(Len(joined) - Len(line) + 1) :
                 \A j \in 1..Len(line) : joined[i + j - 1] = line[j]

\* the words the lines before line k left, in the last aligner run
RestAt(k) == SubSeq(run.words, WordsBefore(run.line_words, k) + 1, Len(run.words))

\* the prefix lengths of the words left to line k that qualify for it
QualifyingAt(k) ==
    LET rest == RestAt(k)
    IN  {m \in 1..Len(rest) : JoinQualifies(SubSeq(rest, 1, m), Val(line_groups)[k])}

\* C13: each reference line takes the shortest non-empty prefix of the words not
\* yet consumed whose single-space join qualifies, or all of them when none does;
\* it takes at least one word when one remains, and the lines take consecutive,
\* disjoint stretches of the buffer.
C13_GreedyMatching ==
    (last_op = "get_srt" /\ run.ran) =>
        /\ Len(run.line_words) = Len(Val(line_groups))
        /\ \A k \in 1..Len(Val(line_groups)) :
              LET rest  == RestAt(k)
                  good  == QualifyingAt(k)
                  taken == run.line_words[k]
              IN  /\ WordsBefore(run.line_words, k) <= Len(run.words)
                  /\ IF good # {}
                     THEN Len(taken) \in good /\ \A m \in good : Len(taken) <= m
                     ELSE Len(taken) = Len(rest)
                  /\ taken = SubSeq(rest, 1, Len(taken))
                  /\ rest # << >> => taken # << >>

\* the spec's scenario in the model's letters: words a, B, a with text "a B\na"
C13_Witness ==
    /\ last_op = "get_srt"
    /\ run.ran
    /\ run.words = << <<"a">>, <<"B">>, <<"a">> >>
    /\ Val(line_groups) = << <<"a", " ", "B">>, <<"a">> >>
    /\ run.line_words = << << <<"a">>, <<"B">> >>, << <<"a">> >> >>
    /\ Len(returned) = 1
    /\ returned[1].content = <<"a", " ", "B", "\n", "a">>

\* the number of words the reference lines took in the last aligner run
WordsUsed == WordsBefore(run.line_words, Len(run.line_words) + 1)

\* the lines of content the last aligner run made for the reference lines
LinesOfContent == [k \in 1..Len(run.line_words) |-> Join(run.line_words[k], <<" ">>)]

\* C14: the words no reference line consumed follow the lines made for the
\* reference lines, one word per line, in buffer order.
C14_LeftoverWords ==
    (last_op = "get_srt" /\ run.ran) =>
        /\ Len(run.line_words) = Len(Val(line_groups))
        /\ run.content =
               LinesOfContent \o SubSeq(run.words, WordsUsed + 1, Len(run.words))
        /\ Last(returned).content = Join(run.content, <<"\n">>)

C14_Witness ==
    /\ last_op = "get_srt"
    /\ run.ran
    /\ Len(returned) = 1
    /\ Len(run.words) = 3
    /\ WordsUsed = 1
    /\ run.words[2] # run.words[3]

\* the non-empty pieces of the strings of xs split on sep, in order
RECURSIVE Pieces(_, _)
Pieces(xs, sep) ==
    IF xs = << >> THEN << >>
    ELSE SelectSeq(Split(Head(xs), sep), LAMBDA t : t # << >>) \o Pieces(Tail(xs), sep)

\* a text split on spaces and line breaks, empty pieces dropped
Tokens(text) == Pieces(Split(text, "\n"), " ")

\* word conservation for the cue the last aligner run built
Conserved ==
    /\ Tokens(Last(returned).content) = run.words
    /\ Len(Split(Last(returned).content, "\n"))
           = Len(Val(line_groups)) + (Len(run.words) - WordsUsed)

\* C15 as stated: the content of the cue an aligner run builds, split on spaces and
\* line breaks with empty pieces dropped, is the sequence of buffered word texts,
\* and it has (reference lines + leftover words) lines.
C15_WordConservationAnyWords ==
    (last_op = "get_srt" /\ run.ran) => Conserved

\* C15 amended: the same, provided every buffered word text is non-empty and free
\* of whitespace.
C15_WordConservation ==
    (last_op = "get_srt" /\ run.ran /\ \A i \in 1..Len(run.words) : IsWord(run.words[i]))
        => Conserved

C15_Witness ==
    /\ last_op = "get_srt"
    /\ run.ran
    /\ \A i \in 1..Len(run.words) : IsWord(run.words[i])
    /\ Len(run.words) = 3
    /\ Len(run.line_words) = 2
    /\ Len(run.line_words[1]) = 2
    /\ Len(returned) = 1

\* the recorded kind is unset while no event is accepted, and is the kind of every
\* accepted event afterwards
KindOfAccepted ==
    IF fed = << >> THEN type = NoType
    ELSE type \in ValidKinds /\ \A i \in 1..Len(fed) : fed[i].type = type

\* C16: the kind is unset until the first successful feed, which sets it to the
\* event's kind; once set it never changes, under feed and get_srt alike; all
\* accepted events have the recorded kind.
C16_KindLatch ==
    [][/\ KindOfAccepted
       /\ KindOfAccepted'
       /\ type # NoType => type' = type
       /\ (type = NoType /\ type' # NoType) =>
              (last_op' = "feed" /\ result' = "ok" /\ type' = last_kind' /\ Len(fed') = 1)
       /\ (type = NoType /\ type' = NoType) => fed' = << >>]_vars

C16_Witness ==
    /\ last_op = "get_srt"
    /\ Len(fed) = 2
    /\ type = "SentenceBoundary"
    /\ cues_is_buffer

\* C17: in every reachable state get_srt gives a cue sequence, possibly empty, and
\* the entries the aligner reads (the first and last buffered word) exist;
\* in an aligner run the word cursor advances by one per word taken, never passes
\* the end of the buffer, and the loops make one iteration per buffered word.
C17_GetSrtTotal ==
    /\ LET next_cues == GetSrtCues(cues, all_words_buffer, line_groups, type)
       IN  DOMAIN next_cues = 1..Len(next_cues)
    /\ UseLineGroups(line_groups, type, all_words_buffer) =>
           /\ 1 \in DOMAIN all_words_buffer
           /\ Val(line_groups) # << >>
    /\ last_op = "get_srt" =>
           /\ DOMAIN returned = 1..Len(returned)
           /\ run.ran =>
                  /\ run.word_index = WordsUsed
                  /\ run.word_index <= Len(run.words)
                  /\ Len(run.line_words) = Len(Val(line_groups))
                  /\ Len(run.content) - Len(run.line_words)
                         = Len(run.words) - run.word_index
                  /\ returned # << >>

C17_Witness ==
    /\ last_op = "get_srt"
    /\ run.ran
    /\ Len(Val(line_groups)) = 2
    /\ Len(run.words) = 2
    /\ Starved(1)
    /\ run.word_index = 2

\* lines are the pieces of text between line breaks, each trimmed, the pieces that
\* are empty after trimming left out, in order
ExtractedFrom(lines, text) ==
    LET pieces == Split(text, "\n")
        kept   == {i \in 1..Len(pieces) : Strip(pieces[i]) # << >>}
    IN  /\ Len(lines) = Cardinality(kept)
        /\ \A i \in kept : lines[Cardinality({j \in kept : j <= i})] = Strip(pieces[i])

\* the original text is absent, empty, or made of blank lines only
BlankText(text) ==
    \/ IsNone(text)
    \/ \A i \in 1..Len(Val(text)) : IsSpace(Val(text)[i])

\* C18: the reference lines are the trimmed non-empty lines of the original text,
\* in order; an absent, empty or blank original text gives no reference lines and
\* get_srt then gives one cue per buffered word.
C18_ReferenceLines ==
    /\ IF IsNone(original_text) THEN IsNone(line_groups)
       ELSE IF Val(original_text) = << >> THEN IsNone(line_groups)
       ELSE ~IsNone(line_groups) /\ ExtractedFrom(Val(line_groups), Val(original_text))
    /\ BlankText(original_text) =>
           /\ ~HasLines(line_groups)
           /\ last_op = "get_srt" =>
                  /\ ~run.ran
                  /\ Len(returned) = Len(fed)
                  /\ \A i \in 1..Len(fed) : returned[i].content = fed[i].text

C18_Witness ==
    /\ original_text = Some(<<"\n">>)
    /\ line_groups = Some(<< >>)
    /\ last_op = "get_srt"
    /\ Len(returned) = 2

====
